---------------------------- MODULE Spec2Model ----------------------------
(* A model of generate_apk.py: main's package-name validation and the      *)
(* APKGenerator pipeline (bytecode acquisition, resource compilation,      *)
(* archive assembly, signing, alignment).  External tools are the          *)
(* environment: each invocation draws its outcome (missing, non-zero exit, *)
(* timeout, success; output file written or not) nondeterministically.     *)
(* A file is modelled as an option: <<>> when absent, <<content>> when     *)
(* present.  A file an external tool writes is taken to be well formed.    *)
EXTENDS Integers, Sequences, FiniteSets, TLC

(* ------------------------------ bounds ------------------------------- *)

\* Longest package identifier drawn as input.
MaxLen == 4

\* Most members of a resource archive written by the resource compiler.
MaxRes == 2

(* ----------------------------- constants ----------------------------- *)

\* dex_data's file-size and header-size fields (0x70).
\* The number of platform archives on disk.
MaxJars == 3

\* The number of concurrent runs.
MaxRuns == 2

DexHeaderSize == 112

\* zlib.adler32's modulus, the largest prime below 2^16.
AdlerMod == 65521

Absent == <<>>
File(c) == <<c>>
Content(f) == f[1]

(* ------------------------ package identifiers ------------------------ *)

\* One alphanumeric character, the dot, and one character that is neither.
Alphabet == {"a", ".", "-"}

PackageIds == UNION {[1..k -> Alphabet] : k \in 0..MaxLen}

\* str.isalnum on one character.
IsAlnum(c) == c = "a"

\* all(c.isalnum() or c == '.' for c in args.package)
AllowedChars(p) == \A i \in 1..Len(p) : IsAlnum(p[i]) \/ p[i] = "."

\* Fault variant: the leading dot is not looked at.
DotAtEndOnly(p) == Len(p) > 0 /\ p[Len(p)] = "."
\* args.package.startswith('.') or args.package.endswith('.')
DotAtEnds(p) == Len(p) > 0 /\ (p[1] = "." \/ p[Len(p)] = ".")

\* main's validation: the run goes on iff neither check exits.
Accepted(p) == AllowedChars(p) /\ ~DotAtEnds(p)

\* self.package_name.replace('.', '/')
PackagePath(p) == [i \in 1..Len(p) |-> IF p[i] = "." THEN "/" ELSE p[i]]

(* -------------------- the Binary Container Builder ------------------- *)

Zeros(n) == [i \in 1..n |-> 0]

\* dex_data before the checksum is stored.
DexTemplate ==
    <<100, 101, 120, 10, 48, 51, 53, 0>>      \* magic dex\n, version 035\0
    \o Zeros(4)                                \* checksum, to be calculated
    \o Zeros(20)                               \* SHA-1 signature placeholder
    \o <<DexHeaderSize, 0, 0, 0>>              \* file size
    \o <<DexHeaderSize, 0, 0, 0>>              \* header size
    \o <<120, 86, 52, 18>>                     \* endian tag
    \o Zeros(68)                               \* link, map, ids, class defs, data

\* zlib.adler32 keeps two running sums modulo 65521 over the bytes d1..dn:
\* a = 1 + d1 + ... + dn, and b, the sum of every intermediate a, which is
\* n + n*d1 + (n-1)*d2 + ... + 1*dn.  The value is the unsigned 32-bit word
\* b * 65536 + a, carried here as its two 16-bit halves (hi = b, lo = a),
\* the model checker's integers being signed 32-bit.  The sums are taken by
\* halving the range.
RECURSIVE WeightedSum(_, _, _, _)
WeightedSum(bytes, lo, hi, weighted) ==
    IF lo > hi THEN 0
    ELSE IF lo = hi
         THEN (IF weighted THEN Len(bytes) - lo + 1 ELSE 1) * bytes[lo]
         ELSE LET mid == (lo + hi) \div 2
              IN  WeightedSum(bytes, lo, mid, weighted)
                  + WeightedSum(bytes, mid + 1, hi, weighted)

Adler32(bytes) ==
    [hi |-> (Len(bytes) + WeightedSum(bytes, 1, Len(bytes), TRUE)) % AdlerMod,
     lo |-> (1 + WeightedSum(bytes, 1, Len(bytes), FALSE)) % AdlerMod]

\* checksum.to_bytes(4, 'little').
ToBytesLE(w) == <<w.lo % 256, w.lo \div 256, w.hi % 256, w.hi \div 256>>

\* dex_data[12:] is the 1-based slice 13..Len.
StoreChecksum(data, sum) == SubSeq(data, 1, 8) \o ToBytesLE(sum) \o SubSeq(data, 13, Len(data))

\* Fault variant: the checksum is taken from the checksum field on.
ChecksumOverAll == StoreChecksum(DexTemplate, Adler32(SubSeq(DexTemplate, 9, Len(DexTemplate))))
\* The bytes _write_minimal_dex_placeholder writes.
MinimalDexPlaceholder == StoreChecksum(DexTemplate, Adler32(SubSeq(DexTemplate, 13, Len(DexTemplate))))

(* --------------------------- file contents --------------------------- *)

\* A bytecode file: who wrote it, and its bytes where the program makes them.
PlaceholderDex == [by |-> "placeholder", bytes |-> MinimalDexPlaceholder]
SmaliDex == [by |-> "smali", bytes |-> <<>>]
ApktoolDex == [by |-> "apktool", bytes |-> <<>>]

AppName == "App"

\* _create_android_manifest: the package and label are pasted in verbatim.
AndroidManifest(p) == [package |-> p, label |-> AppName, activity |-> ".MainActivity"]

\* An archive member, and the names an archive holds (ZipFile.namelist).
Member(n, d) == [name |-> n, data |-> d]
Names(ms) == {ms[i].name : i \in 1..Len(ms)}

\* ZipFile.read(name): the last member written under that name.
ReadMember(ms, n) ==
    ms[CHOOSE i \in 1..Len(ms) :
          ms[i].name = n /\ \A j \in (i + 1)..Len(ms) : ms[j].name # n].data

\* The archives the resource compiler may write: 1..MaxRes members, any names.
ResNames == {"AndroidManifest.xml", "classes.dex"}
ResArchives ==
    UNION {{[i \in 1..k |-> Member(f[i], [res |-> i])] : f \in [1..k -> ResNames]}
           : k \in 1..MaxRes}

\* for name in res_zf.namelist(): if name not in zf.namelist(): zf.writestr(...)
RECURSIVE MergeFrom(_, _, _)
MergeFrom(zf, res, i) ==
    IF i > Len(res) THEN zf
    ELSE MergeFrom(IF res[i].name \notin Names(zf)
                   THEN Append(zf, Member(res[i].name, ReadMember(res, res[i].name)))
                   ELSE zf,
                   res, i + 1)

\* Fault variant: every resource member is written, colliding or not.
MergeUnchecked(zf, res) == zf \o res
MergeResources(zf, res) == MergeFrom(zf, res, 1)

\* Fault variant: without a compiled resource archive only the bytecode
\* member is written.
ArchiveWithoutManifest(dex, resRet, resFile, p) ==
    LET zf == <<Member("classes.dex", Content(dex))>>
    IN  IF resRet /\ resFile # Absent
        THEN MergeResources(zf, Content(resFile))
        ELSE zf

\* The members generate writes into unsigned.apk (step 3).
ArchiveMembers(dex, resRet, resFile, p) ==
    LET zf == <<Member("classes.dex", Content(dex))>>
    IN  IF resRet /\ resFile # Absent
        THEN MergeResources(zf, Content(resFile))
        ELSE Append(zf, Member("AndroidManifest.xml", AndroidManifest(p)))

\* An archive file: zip entries carry the time of the run that wrote them.
Archive(stamp, ms) == [stamp |-> stamp, members |-> ms, signed |-> <<>>, aligned |-> FALSE]

\* jarsigner signs the archive in place with the keystore's key.
Signed(apk, key) == [apk EXCEPT !.signed = <<key>>]

\* zipalign's output: the input's entries, re-laid out.
Aligned(apk) == [apk EXCEPT !.aligned = TRUE]

\* What an earlier run of the tool with no external tool installed left behind.
EarlierArtifact ==
    Archive("earlier", ArchiveMembers(File(PlaceholderDex), FALSE, Absent, <<"a">>))
EarlierKeystore == [made |-> "earlier"]
NewKeystore == [made |-> "current"]

(* --------------------------- tool outcomes --------------------------- *)

\* subprocess.run of an external tool: FileNotFoundError (missing),
\* a return code, or TimeoutExpired; and whether its output file was written.
PresentOutcomes == [status : {"nonzero", "timeout", "ok"}, wrote : BOOLEAN]
Outcomes == {[status |-> "missing", wrote |-> FALSE]} \cup PresentOutcomes

\* The call raised (inside try/except Exception).
Raised(o) == o.status \in {"missing", "timeout"}

Invocation(tool, o) == [tool |-> tool, status |-> o.status, wrote |-> o.wrote]
NoInvocation == [tool |-> "none", status |-> "none", wrote |-> FALSE]

(* ------------------------------- state ------------------------------- *)

VARIABLES
    package,        \* args.package
    pc,             \* where the run stands
    outDir,         \* the output directory exists
    outFile,        \* the file at <outputDir>/<appName>.apk
    keystore,       \* the file at ~/.android/debug.keystore
    workDir,        \* the TemporaryDirectory exists
    smaliFile,      \* work_dir/smali/<package path>/MainActivity.smali
    dexFile,        \* work_dir/classes.dex
    builtApk,       \* work_dir/built.apk
    manifestFile,   \* work_dir/AndroidManifest.xml
    resourcesApk,   \* work_dir/resources.apk
    resourcesRet,   \* _create_resources returned a path
    unsignedApk,    \* work_dir/unsigned.apk
    signRet,        \* what _sign_apk returned
    calls,          \* the external tools invoked, in order
    noneFound,      \* no external tool or asset was found so far in the run
    last,           \* the latest invocation and its outcome
    result,         \* what generate returned
    exitCode,       \* the process exit code
    runs,           \* concurrent runs inside _sign_apk: where each stands
    sdk,            \* the platform archives on disk and the SDK-root variables
    androidJar      \* what _find_android_jar returned

tree == <<workDir, smaliFile, dexFile, builtApk, manifestFile, resourcesApk,
          resourcesRet, unsignedApk>>
\* What the single run of main does not touch.
side == <<runs, sdk, androidJar>>
vars == <<package, pc, outDir, outFile, keystore, tree, signRet, calls, noneFound,
          last, result, exitCode, side>>

OutPath == <<"outputDir", AppName, ".apk">>

Init ==
    /\ package \in PackageIds
    /\ pc = "start"
    /\ \/ outDir = FALSE /\ outFile = Absent
       \/ outDir = TRUE /\ outFile = File(EarlierArtifact)
    /\ keystore \in {Absent, File(EarlierKeystore)}
    /\ workDir = FALSE
    /\ smaliFile = Absent /\ dexFile = Absent /\ builtApk = Absent
    /\ manifestFile = Absent /\ resourcesApk = Absent /\ resourcesRet = FALSE
    /\ unsignedApk = Absent
    /\ signRet = Absent
    /\ calls = <<>>
    /\ noneFound = TRUE
    /\ last = NoInvocation
    /\ result = Absent
    /\ exitCode = Absent
    /\ runs = <<>> /\ sdk = <<>> /\ androidJar = Absent

Invoke(tool, o) ==
    /\ calls' = Append(calls, tool)
    /\ last' = Invocation(tool, o)

(* -------------------------------- main ------------------------------- *)

\* Fault variant: the generator is constructed before the checks, so a
\* rejected run has already made the output directory.
ValidateAfterConstruct ==
    /\ pc = "start"
    /\ IF Accepted(package)
       THEN pc' = "construct" /\ exitCode' = exitCode
       ELSE pc' = "done" /\ exitCode' = <<1>>
    /\ outDir' = TRUE
    /\ UNCHANGED side
    /\ UNCHANGED <<package, outFile, keystore, tree, signRet, calls,
                   noneFound, last, result>>

\* main, lines 797-804: the two checks, each ending in sys.exit(1).
Validate ==
    /\ pc = "start"
    /\ IF Accepted(package)
       THEN pc' = "construct" /\ exitCode' = exitCode
       ELSE pc' = "done" /\ exitCode' = <<1>>
    /\ UNCHANGED side
    /\ UNCHANGED <<package, outDir, outFile, keystore, tree, signRet, calls,
                   noneFound, last, result>>

\* APKGenerator.__init__: mkdir(parents=True, exist_ok=True); the dependency
\* check only prints.
Construct ==
    /\ pc = "construct"
    /\ outDir' = TRUE
    /\ pc' = "generate"
    /\ UNCHANGED side
    /\ UNCHANGED <<package, outFile, keystore, tree, signRet, calls, noneFound,
                   last, result, exitCode>>

(* ------------------------ bytecode acquisition ----------------------- *)

\* generate, line 703: not dex_file or not dex_file.exists().
DexCheck(dex) == IF dex # Absent THEN "resources" ELSE "nodex"

\* generate up to the first tool call: the working tree, the smali source,
\* shutil.which('smali').
BeginGenerate ==
    /\ pc = "generate"
    /\ workDir' = TRUE
    /\ smaliFile' = File([class |-> PackagePath(package) \o <<"/", "MainActivity">>])
    /\ \E found \in BOOLEAN :
          IF found
          THEN pc' = "smali1" /\ noneFound' = FALSE
          ELSE pc' = "prebuilt" /\ noneFound' = noneFound
    /\ UNCHANGED side
    /\ UNCHANGED <<package, outDir, outFile, keystore, dexFile, builtApk,
                   manifestFile, resourcesApk, resourcesRet, unsignedApk, signRet,
                   calls, last, result, exitCode>>

\* Fault variant: the second syntax is tried even when the first one has
\* already produced classes.dex.
SmaliAssembleContinues ==
    /\ pc = "smali1"
    /\ \E o \in PresentOutcomes :
          /\ Invoke("smali assemble", o)
          /\ dexFile' = IF o.wrote THEN File(SmaliDex) ELSE dexFile
          /\ pc' = IF Raised(o) THEN "prebuilt" ELSE "smali2"
    /\ UNCHANGED side
    /\ UNCHANGED <<package, outDir, outFile, keystore, workDir, smaliFile, builtApk,
                   manifestFile, resourcesApk, resourcesRet, unsignedApk, signRet,
                   noneFound, result, exitCode>>

\* smali assemble --output classes.dex (lines 357-367, 382-383).
SmaliAssemble ==
    /\ pc = "smali1"
    /\ \E o \in PresentOutcomes :
          /\ Invoke("smali assemble", o)
          /\ dexFile' = IF o.wrote THEN File(SmaliDex) ELSE dexFile
          /\ pc' = IF Raised(o) THEN "prebuilt"
                   ELSE IF dexFile' # Absent THEN DexCheck(dexFile')
                   ELSE "smali2"
    /\ UNCHANGED side
    /\ UNCHANGED <<package, outDir, outFile, keystore, workDir, smaliFile, builtApk,
                   manifestFile, resourcesApk, resourcesRet, unsignedApk, signRet,
                   noneFound, result, exitCode>>

\* Fault variant: after the second syntax the cascade returns dex_file
\* without falling back to _create_prebuilt_dex.
SmaliAlternativeGivesUp ==
    /\ pc = "smali2"
    /\ \E o \in PresentOutcomes :
          /\ Invoke("smali a", o)
          /\ dexFile' = IF o.wrote THEN File(SmaliDex) ELSE dexFile
          /\ pc' = IF Raised(o) THEN "prebuilt" ELSE DexCheck(dexFile')
    /\ UNCHANGED side
    /\ UNCHANGED <<package, outDir, outFile, keystore, workDir, smaliFile, builtApk,
                   manifestFile, resourcesApk, resourcesRet, unsignedApk, signRet,
                   noneFound, result, exitCode>>

\* smali a -o classes.dex (lines 368-383).
SmaliAlternative ==
    /\ pc = "smali2"
    /\ \E o \in PresentOutcomes :
          /\ Invoke("smali a", o)
          /\ dexFile' = IF o.wrote THEN File(SmaliDex) ELSE dexFile
          /\ pc' = IF ~Raised(o) /\ dexFile' # Absent THEN DexCheck(dexFile')
                   ELSE "prebuilt"
    /\ UNCHANGED side
    /\ UNCHANGED <<package, outDir, outFile, keystore, workDir, smaliFile, builtApk,
                   manifestFile, resourcesApk, resourcesRet, unsignedApk, signRet,
                   noneFound, result, exitCode>>

\* Fault variant: the placeholder is not written.
PlaceholderNotWritten(dex) == dex
\* _write_minimal_dex_placeholder: dex_file.write_bytes(bytes(dex_data)).
WriteMinimalDexPlaceholder(dex) == File(PlaceholderDex)

\* _create_prebuilt_dex: apktool.jar if present (build, then extract
\* classes.dex from built.apk), else and otherwise the placeholder.
CreatePrebuiltDex ==
    /\ pc = "prebuilt"
    /\ \E jar \in BOOLEAN, o \in Outcomes, hasDex \in BOOLEAN :
          /\ hasDex => jar /\ o.wrote
          /\ ~jar => o.status = "missing"
          /\ IF jar
             THEN /\ Invoke("apktool b", o)
                  /\ noneFound' = FALSE
                  /\ builtApk' = IF o.wrote
                                 THEN File(IF hasDex THEN <<Member("classes.dex", ApktoolDex)>>
                                           ELSE <<>>)
                                 ELSE Absent
             ELSE /\ noneFound' = noneFound
                  /\ UNCHANGED <<calls, last, builtApk>>
          /\ dexFile' = IF jar /\ ~Raised(o) /\ o.wrote /\ hasDex
                        THEN File(ReadMember(Content(builtApk'), "classes.dex"))
                        ELSE WriteMinimalDexPlaceholder(dexFile)
          /\ pc' = DexCheck(dexFile')
    /\ UNCHANGED side
    /\ UNCHANGED <<package, outDir, outFile, keystore, workDir, smaliFile,
                   manifestFile, resourcesApk, resourcesRet, unsignedApk, signRet,
                   result, exitCode>>

(* ------------------------ resource compilation ----------------------- *)

\* _create_resources: the manifest is written first; android.jar is looked
\* for; aapt package -f ... -F resources.apk; the path is returned iff the
\* call did not raise and resources.apk exists.
CreateResources ==
    /\ pc = "resources"
    /\ manifestFile' = File(AndroidManifest(package))
    /\ \E jar \in BOOLEAN, o \in Outcomes :
       \E res \in IF o.wrote THEN ResArchives ELSE {<<>>} :
          /\ ~jar => o.status = "missing"
          /\ IF jar
             THEN /\ Invoke("aapt package", o)
                  /\ noneFound' = FALSE
                  /\ resourcesApk' = IF o.wrote THEN File(res) ELSE Absent
                  /\ resourcesRet' = (~Raised(o) /\ resourcesApk' # Absent)
             ELSE /\ noneFound' = noneFound
                  /\ resourcesApk' = Absent
                  /\ resourcesRet' = FALSE
                  /\ UNCHANGED <<calls, last>>
    /\ pc' = "archive"
    /\ UNCHANGED side
    /\ UNCHANGED <<package, outDir, outFile, keystore, workDir, smaliFile, dexFile,
                   builtApk, unsignedApk, signRet, result, exitCode>>

(* -------------------------- archive assembly ------------------------- *)

\* generate, step 3: unsigned.apk is written and closed.
BuildArchive ==
    /\ pc = "archive"
    /\ unsignedApk' = File(Archive("current",
                           ArchiveMembers(dexFile, resourcesRet, resourcesApk, package)))
    /\ pc' = "sign"
    /\ UNCHANGED side
    /\ UNCHANGED <<package, outDir, outFile, keystore, workDir, smaliFile, dexFile,
                   builtApk, manifestFile, resourcesApk, resourcesRet, signRet,
                   calls, noneFound, last, result, exitCode>>

(* ------------------------------ signing ------------------------------ *)

\* Fault variant: generate goes from the archive straight to alignment.
SignSkipped ==
    /\ pc = "sign"
    /\ keystore' = keystore
    /\ pc' = "align"
    /\ UNCHANGED side
    /\ UNCHANGED <<package, outDir, outFile, tree, signRet, calls, noneFound, last,
                   result, exitCode>>

\* _sign_apk, lines 624-630: an existing keystore is unlinked.
SignPrepare ==
    /\ pc = "sign"
    /\ keystore' = Absent
    /\ pc' = "keytool"
    /\ UNCHANGED side
    /\ UNCHANGED <<package, outDir, outFile, tree, signRet, calls, noneFound, last,
                   result, exitCode>>

\* Fault variant: a keytool failure ends generate with no artifact.
KeytoolHalts(o) == IF o.status = "ok" THEN "jarsigner" ELSE "nodex"
\* After keytool: with check=True anything but exit code 0 raises, and
\* _sign_apk returns False; generate goes on to alignment.
AfterKeytool(o) == IF o.status = "ok" THEN "jarsigner" ELSE "align"

\* Fault variant: _sign_apk goes on to jarsigner whatever keytool did.
SignKeytoolThenAlwaysSigns ==
    /\ pc = "keytool"
    /\ \E o \in Outcomes :
          /\ Invoke("keytool -genkey", o)
          /\ noneFound' = (noneFound /\ o.status = "missing")
          /\ keystore' = IF o.wrote THEN File(NewKeystore) ELSE keystore
          /\ pc' = "jarsigner"
          /\ signRet' = signRet
    /\ UNCHANGED side
    /\ UNCHANGED <<package, outDir, outFile, tree, result, exitCode>>

\* _sign_apk, lines 632-646: keytool -genkey.
SignKeytool ==
    /\ pc = "keytool"
    /\ \E o \in Outcomes :
          /\ Invoke("keytool -genkey", o)
          /\ noneFound' = (noneFound /\ o.status = "missing")
          /\ keystore' = IF o.wrote THEN File(NewKeystore) ELSE keystore
          /\ pc' = AfterKeytool(o)
          /\ signRet' = IF o.status = "ok" THEN signRet ELSE <<FALSE>>
    /\ UNCHANGED side
    /\ UNCHANGED <<package, outDir, outFile, tree, result, exitCode>>

\* _sign_apk, lines 648-669: jarsigner signs unsigned.apk in place, which
\* takes a keystore; a non-zero exit is only a warning.
SignJarsigner ==
    /\ pc = "jarsigner"
    /\ \E o \in Outcomes :
          /\ o.wrote => keystore # Absent
          /\ Invoke("jarsigner", o)
          /\ noneFound' = (noneFound /\ o.status = "missing")
          /\ unsignedApk' = IF o.wrote
                            THEN File(Signed(Content(unsignedApk), Content(keystore)))
                            ELSE unsignedApk
          /\ signRet' = <<~Raised(o)>>
    /\ pc' = "align"
    /\ UNCHANGED side
    /\ UNCHANGED <<package, outDir, outFile, keystore, workDir, smaliFile, dexFile,
                   builtApk, manifestFile, resourcesApk, resourcesRet, result,
                   exitCode>>

(* ----------------------------- alignment ----------------------------- *)

\* _align_apk: False if the call raised, else output_apk.exists().
AlignReturn(o, out) == ~Raised(o) /\ out # Absent

\* Fault variant: no fallback copy.
NoFallbackCopy(aligned, out, unsigned) == out
\* generate, lines 743-745: shutil.copy(unsigned_apk, final_apk) if
\* _align_apk returned False.
AlignedOrCopy(aligned, out, unsigned) == IF aligned THEN out ELSE unsigned

\* Fault variant: zipalign is run without a timeout, and a call that would
\* have timed out never returns.
AlignApkWithoutTimeout ==
    /\ pc = "align"
    /\ \E o \in Outcomes :
          LET out == IF o.wrote THEN File(Aligned(Content(unsignedApk))) ELSE outFile
          IN  /\ Invoke("zipalign", o)
              /\ noneFound' = (noneFound /\ o.status = "missing")
              /\ outFile' = IF o.status = "timeout" THEN out
                            ELSE AlignedOrCopy(AlignReturn(o, out), out, unsignedApk)
              /\ pc' = IF o.status = "timeout" THEN "blocked" ELSE "aligned"
    /\ UNCHANGED side
    /\ UNCHANGED <<package, outDir, keystore, tree, signRet, result, exitCode>>

\* generate, step 5: zipalign -f 4 unsigned.apk <final>, then the fallback.
AlignApk ==
    /\ pc = "align"
    /\ \E o \in Outcomes :
          LET out == IF o.wrote THEN File(Aligned(Content(unsignedApk))) ELSE outFile
          IN  /\ Invoke("zipalign", o)
              /\ noneFound' = (noneFound /\ o.status = "missing")
              /\ outFile' = AlignedOrCopy(AlignReturn(o, out), out, unsignedApk)
    /\ pc' = "aligned"
    /\ UNCHANGED side
    /\ UNCHANGED <<package, outDir, keystore, tree, signRet, result, exitCode>>

(* ------------------------------- return ------------------------------ *)

\* Fault variant: the exit codes swapped.
ExitInverted(res) == IF res # Absent THEN 1 ELSE 0
\* main, lines 810-820: if result: sys.exit(0) else sys.exit(1).
ExitFor(res) == IF res # Absent THEN 0 ELSE 1

\* Fault variant: generate returns with the working tree left in place.
FinishKeepsTree ==
    /\ pc \in {"aligned", "nodex"}
    /\ result' = IF pc = "aligned" /\ outFile # Absent THEN File(OutPath) ELSE Absent
    /\ exitCode' = <<ExitFor(result')>>
    /\ pc' = "done"
    /\ UNCHANGED side
    /\ UNCHANGED <<package, outDir, outFile, keystore, tree, signRet, calls,
                   noneFound, last>>

\* generate's return (lines 703-705, 747-753), the working tree's removal
\* on leaving the with block, and main's exit.
Finish ==
    /\ pc \in {"aligned", "nodex"}
    /\ result' = IF pc = "aligned" /\ outFile # Absent THEN File(OutPath) ELSE Absent
    /\ workDir' = FALSE
    /\ smaliFile' = Absent /\ dexFile' = Absent /\ builtApk' = Absent
    /\ manifestFile' = Absent /\ resourcesApk' = Absent /\ resourcesRet' = FALSE
    /\ unsignedApk' = Absent
    /\ exitCode' = <<ExitFor(result')>>
    /\ pc' = "done"
    /\ UNCHANGED side
    /\ UNCHANGED <<package, outDir, outFile, keystore, signRet, calls, noneFound, last>>

Next ==
    \/ Validate
    \/ Construct
    \/ BeginGenerate
    \/ SmaliAssemble
    \/ SmaliAlternative
    \/ CreatePrebuiltDex
    \/ CreateResources
    \/ BuildArchive
    \/ SignPrepare
    \/ SignKeytool
    \/ SignJarsigner
    \/ AlignApk
    \/ Finish

Spec == Init /\ [][Next]_vars

\* The run is one thread of blocking calls, each bounded by its timeout
\* (60, 60, 120, 60, 30, 30, 30 s): a step that can be taken is taken.
FairSpec == Spec /\ WF_vars(Next)

(* ------------------- concurrent runs inside _sign_apk ------------------ *)

\* Several processes of the tool, each inside _sign_apk, on the one keystore
\* path; every statement of _sign_apk that touches the path is a step.
Runs == 1..MaxRuns

\* The keystore file while keytool of run r is writing it, and once written.
PartialKeystore(r) == [made |-> "partial", by |-> r]
KeystoreOf(r) == [made |-> "current", by |-> r]

\* The state of the single run of main, keystore aside.
single == <<package, pc, outDir, outFile, tree, signRet, calls, noneFound, last,
            result, exitCode>>

\* Each run stands at the start of _sign_apk; saw is what the signer found at
\* the keystore path, ret what _sign_apk returned.
RaceInit ==
    /\ package = <<>> /\ pc = "off"
    /\ outDir = FALSE /\ outFile = Absent
    /\ workDir = FALSE
    /\ smaliFile = Absent /\ dexFile = Absent /\ builtApk = Absent
    /\ manifestFile = Absent /\ resourcesApk = Absent /\ resourcesRet = FALSE
    /\ unsignedApk = Absent
    /\ signRet = Absent
    /\ calls = <<>>
    /\ noneFound = TRUE
    /\ last = NoInvocation
    /\ result = Absent
    /\ exitCode = Absent
    /\ sdk = <<>> /\ androidJar = Absent
    /\ keystore \in {Absent, File(EarlierKeystore)}
    /\ runs = [r \in Runs |-> [pc |-> "sign", ret |-> <<>>, saw |-> <<>>]]

\* Fault variant: a run tests the path only while no other run stands
\* between its own test and its signer's return.
RunExistsExclusive(r) ==
    /\ runs[r].pc = "sign"
    /\ \A q \in Runs \ {r} : runs[q].pc \in {"sign", "returned", "raised"}
    /\ runs' = [runs EXCEPT ![r].pc = IF keystore # Absent THEN "unlink" ELSE "keytool"]
    /\ UNCHANGED <<keystore, single, sdk, androidJar>>

\* Line 628: if keystore.exists().
RunExists(r) ==
    /\ runs[r].pc = "sign"
    /\ runs' = [runs EXCEPT ![r].pc = IF keystore # Absent THEN "unlink" ELSE "keytool"]
    /\ UNCHANGED <<keystore, single, sdk, androidJar>>

\* Line 630: keystore.unlink().  If the file has gone since the test, unlink
\* raises FileNotFoundError, which nothing in _sign_apk or generate catches.
RunUnlink(r) ==
    /\ runs[r].pc = "unlink"
    /\ IF keystore # Absent
       THEN keystore' = Absent /\ runs' = [runs EXCEPT ![r].pc = "keytool"]
       ELSE keystore' = keystore /\ runs' = [runs EXCEPT ![r].pc = "raised"]
    /\ UNCHANGED <<single, sdk, androidJar>>

\* Lines 632-646, first half: keytool is started.  It fails before writing
\* anything (missing, non-zero exit, timeout: _sign_apk returns False), or it
\* starts to write the keystore file.
RunKeytoolStart(r) ==
    /\ runs[r].pc = "keytool"
    /\ \E o \in Outcomes :
          IF o.wrote
          THEN /\ keystore' = File(PartialKeystore(r))
               /\ runs' = [runs EXCEPT ![r].pc = "writing"]
          ELSE /\ o.status # "ok"
               /\ keystore' = keystore
               /\ runs' = [runs EXCEPT ![r].pc = "returned", ![r].ret = <<FALSE>>]
    /\ UNCHANGED <<single, sdk, androidJar>>

\* Lines 632-646, second half: keytool ends.  With exit status 0 the file it
\* wrote is complete, if it is still the file at the path; anything else
\* raises under check=True and _sign_apk returns False.
RunKeytoolEnd(r) ==
    /\ runs[r].pc = "writing"
    /\ \E status \in {"ok", "nonzero", "timeout"} :
          IF status = "ok"
          THEN /\ keystore' = IF keystore = File(PartialKeystore(r))
                              THEN File(KeystoreOf(r)) ELSE keystore
               /\ runs' = [runs EXCEPT ![r].pc = "jarsigner"]
          ELSE /\ keystore' = keystore
               /\ runs' = [runs EXCEPT ![r].pc = "returned", ![r].ret = <<FALSE>>]
    /\ UNCHANGED <<single, sdk, androidJar>>

\* Lines 648-669: jarsigner -keystore <path>: it reads whatever is at the
\* path now; _sign_apk returns True unless the call raised.
RunJarsigner(r) ==
    /\ runs[r].pc = "jarsigner"
    /\ \E o \in Outcomes :
          runs' = [runs EXCEPT ![r].pc = "returned", ![r].ret = <<~Raised(o)>>,
                               ![r].saw = <<keystore>>]
    /\ UNCHANGED <<keystore, single, sdk, androidJar>>

RunStep(r) ==
    \/ RunExists(r)
    \/ RunUnlink(r)
    \/ RunKeytoolStart(r)
    \/ RunKeytoolEnd(r)
    \/ RunJarsigner(r)

RaceNext == \E r \in Runs : RunStep(r)

RaceSpec == RaceInit /\ [][RaceNext]_vars

(* --------------------------- _find_android_jar -------------------------- *)

\* API levels of platform directories: the three of the fixed paths, one more
\* inside 23..30, one below and one above the range.
Levels == {22, 23, 24, 28, 30, 31}

\* <root>/platforms/android-<n>/android.jar, and an android.jar in a platform
\* directory whose name holds no number (android-S).
Platform(root, n) == [at |-> root, level |-> n, named |-> "android-N"]
Unnumbered(root) == [at |-> root, level |-> 0, named |-> "android-S"]
\* /usr/share/java/com.android.android-<n>.jar
JavaJar(n) == [at |-> "java", level |-> n, named |-> "jar"]

\* Lines 82-89 and 135-140.
known_paths ==
    <<Platform("system", 23), Platform("system", 28), Platform("system", 30),
      JavaJar(23), JavaJar(28), JavaJar(30)>>
additional_paths ==
    <<Platform("home", 28), Platform("home", 30),
      Platform("opt", 28), Platform("opt", 30)>>

\* What ANDROID_HOME and ANDROID_SDK_ROOT may hold: nothing, or one of two
\* SDK roots apart from the system's.
SdkRoots == {"rootA", "rootB"}
EnvValues == {""} \cup SdkRoots

\* Every archive the search could meet.
AllJars ==
    {Platform(root, n) : root \in {"system"} \cup SdkRoots, n \in Levels}
    \cup {Unnumbered(root) : root \in {"system"} \cup SdkRoots}
    \cup {known_paths[i] : i \in DOMAIN known_paths}
    \cup {additional_paths[i] : i \in DOMAIN additional_paths}

\* The sets of at most k archives.
RECURSIVE JarSets(_)
JarSets(k) ==
    IF k = 0 THEN {{}}
    ELSE LET smaller == JarSets(k - 1)
         IN  smaller \cup {s \cup {jar} : s \in smaller, jar \in AllJars}

\* for path in paths: if path.exists(): return path
RECURSIVE FirstExisting(_, _, _)
FirstExisting(paths, jars, i) ==
    IF i > Len(paths) THEN Absent
    ELSE IF paths[i] \in jars THEN File(paths[i])
    ELSE FirstExisting(paths, jars, i + 1)

\* int(platform.name.replace('android-', '').split('.')[0]); ValueError skips
\* the directory.
HasApiLevel(jar) == jar.named = "android-N"

\* Fault variant: platforms are sorted by level alone.
SortByLevel(jar) == <<0, jar.level>>
\* key=lambda x: (0 if 23 <= x[0] <= 30 else 1, x[0])
SortKey(jar) == <<IF 23 <= jar.level /\ jar.level <= 30 THEN 0 ELSE 1, jar.level>>

KeyLeq(a, b) == a[1] < b[1] \/ (a[1] = b[1] /\ a[2] <= b[2])

\* The scan of <root>/platforms (lines 96-112, 118-132): platforms[0] after
\* the sort, if any.
ScanPlatforms(root, jars) ==
    LET platforms == {jar \in jars : jar.at = root /\ HasApiLevel(jar)}
    IN  IF platforms = {} THEN Absent
        ELSE File(CHOOSE jar \in platforms :
                     \A other \in platforms : KeyLeq(SortKey(jar), SortKey(other)))

\* Line 115: os.environ.get('ANDROID_HOME') or os.environ.get('ANDROID_SDK_ROOT').
AndroidHome(env) == IF env.ANDROID_HOME # "" THEN env.ANDROID_HOME ELSE env.ANDROID_SDK_ROOT

FindAndroidJar(env) ==
    LET known == FirstExisting(known_paths, env.jars, 1)
        system == ScanPlatforms("system", env.jars)
        android_home == AndroidHome(env)
        user == IF android_home # "" THEN ScanPlatforms(android_home, env.jars) ELSE Absent
    IN  IF known # Absent THEN known
        ELSE IF system # Absent THEN system
        ELSE IF user # Absent THEN user
        ELSE FirstExisting(additional_paths, env.jars, 1)

\* Any disk holding at most MaxJars platform archives, any setting of the two
\* variables; the single run and the concurrent runs are out of the picture.
FindInit ==
    /\ package = <<>> /\ pc = "find"
    /\ outDir = FALSE /\ outFile = Absent /\ keystore = Absent
    /\ workDir = FALSE
    /\ smaliFile = Absent /\ dexFile = Absent /\ builtApk = Absent
    /\ manifestFile = Absent /\ resourcesApk = Absent /\ resourcesRet = FALSE
    /\ unsignedApk = Absent
    /\ signRet = Absent
    /\ calls = <<>>
    /\ noneFound = TRUE
    /\ last = NoInvocation
    /\ result = Absent
    /\ exitCode = Absent
    /\ runs = <<>>
    /\ sdk \in [jars : JarSets(MaxJars), ANDROID_HOME : EnvValues,
                ANDROID_SDK_ROOT : EnvValues]
    /\ androidJar = Absent

\* android_jar = self._find_android_jar()
FindJar ==
    /\ pc = "find"
    /\ androidJar' = FindAndroidJar(sdk)
    /\ pc' = "found"
    /\ UNCHANGED <<package, outDir, outFile, keystore, tree, signRet, calls,
                   noneFound, last, result, exitCode, runs, sdk>>

FindNext == FindJar

FindSpec == FindInit /\ [][FindNext]_vars

(* ------------------------------- claims ------------------------------ *)

Range(s) == {s[i] : i \in 1..Len(s)}

\* The 32-bit word four little-endian bytes spell, as its 16-bit halves.
FromBytesLE(b) == [hi |-> b[3] + 256 * b[4], lo |-> b[1] + 256 * b[2]]

\* The specification's package identifier: non-empty, dot-separated
\* non-empty alphanumeric segments, no leading or trailing dot.
ValidPackageId(p) ==
    /\ p # <<>>
    /\ \A i \in 1..Len(p) : p[i] \in {"a", "."}
    /\ p[1] # "." /\ p[Len(p)] # "."
    /\ \A i \in 1..(Len(p) - 1) : ~(p[i] = "." /\ p[i + 1] = ".")

\* A character outside alphanumeric/dot, or a leading or trailing dot.
BadCharOrEdgeDot(p) ==
    \/ \E i \in 1..Len(p) : p[i] \notin {"a", "."}
    \/ p # <<>> /\ (p[1] = "." \/ p[Len(p)] = ".")

\* An empty segment (two consecutive dots), or the empty identifier.
HasEmptySegment(p) ==
    \/ p = <<>>
    \/ \E i \in 1..(Len(p) - 1) : p[i] = "." /\ p[i + 1] = "."

NonEmptyArchive(f) == f # Absent /\ Len(Content(f).members) >= 1
WrittenThisRun(f) == f # Absent /\ Content(f).stamp = "current"
NoDuplicateNames(ms) ==
    \A i, j \in 1..Len(ms) : ms[i].name = ms[j].name => i = j

C2_InvalidIdRejected ==
    BadCharOrEdgeDot(package) =>
        /\ pc \in {"start", "done"}
        /\ ~WrittenThisRun(outFile)
        /\ pc = "done" => exitCode = <<1>>

C2_Witness ==
    /\ pc = "done" /\ package = <<".", "a">> /\ exitCode = <<1>>
    /\ outFile = Absent

\* C3: an identifier with an empty segment, or the empty identifier, is
\* rejected: exit code 1 and nothing written under the output directory.
C3_EmptySegmentRejected ==
    (pc = "done" /\ HasEmptySegment(package)) =>
        exitCode = <<1>> /\ ~WrittenThisRun(outFile)

\* C4: when no external tool or asset is found, a run with a valid identifier
\* does not stop before its exit, exits with code 0, and leaves a non-empty
\* archive whose classes.dex member is the builder's 112-byte output.
C4_NoToolsStillBuilds ==
    (ValidPackageId(package) /\ noneFound) =>
        /\ pc # "done" => ENABLED Next
        /\ pc = "done" =>
              /\ exitCode = <<0>>
              /\ NonEmptyArchive(outFile)
              /\ "classes.dex" \in Names(Content(outFile).members)
              /\ LET dex == ReadMember(Content(outFile).members, "classes.dex")
                 IN  dex.by = "placeholder" /\ Len(dex.bytes) = DexHeaderSize

C4_Witness ==
    /\ pc = "done" /\ ValidPackageId(package) /\ noneFound
    /\ calls = <<"keytool -genkey", "zipalign">>
    /\ exitCode = <<0>> /\ WrittenThisRun(outFile)

\* The aligner failed: tool missing, non-zero exit, timeout, or no output.
AlignerFailed(l) ==
    l.tool = "zipalign" /\ (l.status \in {"missing", "nonzero", "timeout"} \/ ~l.wrote)

\* C5: if the aligner fails, the final artifact is byte-identical to this
\* run's pre-alignment archive, also when the output path held an artifact
\* (stated of the runs whose identifier is valid).
C5_AlignFallbackLaw ==
    (pc = "aligned" /\ ValidPackageId(package) /\ AlignerFailed(last)) =>
        outFile = unsignedApk

\* C6: the assembled archive never holds two members of one name, and its
\* classes.dex member holds the bytecode file's bytes, whatever the
\* resource archive contains.
C6_OneMemberPerName ==
    unsignedApk # Absent =>
        /\ NoDuplicateNames(Content(unsignedApk).members)
        /\ "classes.dex" \in Names(Content(unsignedApk).members)
        /\ ReadMember(Content(unsignedApk).members, "classes.dex") = Content(dexFile)

C6_Witness ==
    /\ unsignedApk # Absent /\ resourcesRet
    /\ resourcesApk = File(<<Member("classes.dex", [res |-> 1]),
                             Member("classes.dex", [res |-> 2])>>)

\* C7: the placeholder bytecode file, as _write_minimal_dex_placeholder
\* leaves it, is exactly 112 bytes, which its file-size and header-size
\* fields both store, and the little-endian word at bytes 8..11 is the
\* Adler-32 checksum of bytes 12..111.
C7_PlaceholderSelfConsistent ==
    (pc = "resources" /\ Content(dexFile).by = "placeholder") =>
        LET b == Content(dexFile).bytes
        IN  /\ Len(b) = 112
            /\ FromBytesLE(SubSeq(b, 33, 36)) = [hi |-> 0, lo |-> Len(b)]
            /\ FromBytesLE(SubSeq(b, 37, 40)) = [hi |-> 0, lo |-> Len(b)]
            /\ FromBytesLE(SubSeq(b, 9, 12)) = Adler32(SubSeq(b, 13, 112))
            /\ SubSeq(b, 9, 12) = <<245, 1, 80, 145>>

C7_Witness ==
    /\ pc = "resources" /\ dexFile = File(PlaceholderDex)
    /\ calls = <<>>

\* C8: once the archive is assembled, whatever keytool, the signer and the
\* aligner do, the aligner is invoked, the run ends with an artifact at the
\* output path, and generate returns that path.
C8_ArtifactAfterAssembly ==
    /\ signRet = <<FALSE>> => pc \in {"align", "aligned", "done"}
    /\ (pc = "done" /\ "keytool -genkey" \in Range(calls)) =>
          /\ "zipalign" \in Range(calls)
          /\ outFile # Absent
          /\ result = File(OutPath)

C8_Witness ==
    /\ pc = "done" /\ signRet = <<FALSE>>
    /\ "jarsigner" \in Range(calls)
    /\ last.status = "timeout"
    /\ result = File(OutPath)

\* C9: the exit code is 0 iff generate returned a path; it is 1 when main's
\* validation refuses the identifier or generate returned no artifact.
C9_ExitCode ==
    pc = "done" =>
        /\ exitCode \in {<<0>>, <<1>>}
        /\ exitCode = <<0>> <=> result # Absent
        /\ (BadCharOrEdgeDot(package) \/ result = Absent) => exitCode = <<1>>

C9_Witness ==
    /\ pc = "done" /\ exitCode = <<0>> /\ result = File(OutPath)
    /\ outFile # Absent

\* C10: bytecode acquisition always yields a bytecode file: past that stage
\* classes.dex exists, and generate never gives up for want of it.
C10_BytecodeAlwaysYielded ==
    /\ pc # "nodex"
    /\ pc \in {"resources", "archive", "sign", "keytool", "jarsigner", "align",
               "aligned"} => dexFile # Absent

C10_Witness ==
    /\ pc = "resources"
    /\ calls = <<"smali assemble", "smali a", "apktool b">>
    /\ last.status = "nonzero"
    /\ dexFile = File(PlaceholderDex)

\* No working tree, and none of the files it owned.
TreeGone ==
    /\ ~workDir
    /\ smaliFile = Absent /\ dexFile = Absent /\ builtApk = Absent
    /\ manifestFile = Absent /\ resourcesApk = Absent /\ unsignedApk = Absent

CompileTools == {"javac", "d8", "dx"}

\* C12: a run that found the platform API archive (the resource compiler is
\* invoked only then) started its bytecode stage with the Compile strategy's
\* compiler, ahead of the assembler and of every other tool.
C12_CompileAttemptedFirst ==
    "aapt package" \in Range(calls) => calls[1] \in CompileTools

SmaliTools == {"smali assemble", "smali a"}

\* The built archive of the Externally-built strategy holds a classes.dex.
BuiltHasDex == builtApk # Absent /\ "classes.dex" \in Names(Content(builtApk))

\* C13: the bytecode cascade stops at the first strategy that yields
\* classes.dex (a call that timed out yields nothing, whatever it left
\* behind).  The second assembler syntax and the Externally-built strategy
\* start only when nothing has been yielded; an assembled file is followed
\* by no packager call and is not replaced; an extracted file comes from the
\* built archive; the placeholder is written only when neither the assembler
\* nor the packager yielded.
C13_CascadeStopsAtFirstSuccess ==
    /\ pc = "smali2" => dexFile = Absent
    /\ pc = "prebuilt" => (dexFile = Absent \/ (last.tool \in SmaliTools /\ Raised(last)))
    /\ (workDir /\ pc \in {"resources", "archive", "sign", "keytool", "jarsigner",
                           "align", "aligned"}) =>
          /\ dexFile # Absent
          /\ Content(dexFile) = SmaliDex => "apktool b" \notin Range(calls)
          /\ Content(dexFile) = ApktoolDex => BuiltHasDex
    /\ (pc = "resources" /\ Content(dexFile) = SmaliDex) =>
          (last.tool \in SmaliTools /\ ~Raised(last) /\ last.wrote)
    /\ (pc = "resources" /\ Content(dexFile) = ApktoolDex) =>
          (last.tool = "apktool b" /\ ~Raised(last))
    /\ (pc = "resources" /\ Content(dexFile) = PlaceholderDex) =>
          /\ last.tool \in SmaliTools => (Raised(last) \/ ~last.wrote)
          /\ last.tool = "apktool b" => (Raised(last) \/ ~BuiltHasDex)

C13_Witness ==
    /\ pc = "done" /\ exitCode = <<0>>
    /\ calls = <<"smali assemble", "aapt package", "keytool -genkey", "jarsigner",
                 "zipalign">>
    /\ outFile # Absent
    /\ ReadMember(Content(outFile).members, "classes.dex") = SmaliDex

\* C14: the pipeline leaves the Assemble strategy for the next one only
\* after the second syntax has been invoked, whatever made the first syntax
\* yield no file.
C14_SecondSyntaxAlwaysTried ==
    (pc = "prebuilt" /\ "smali assemble" \in Range(calls)) => "smali a" \in Range(calls)

\* C15: _create_resources returns a path only when the resource compiler
\* ran and exited with status 0; after any failure it returns None.
C15_ResourcesNoneOnFailure ==
    (pc = "archive" /\ resourcesRet) => (last.tool = "aapt package" /\ last.status = "ok")

\* C16: the members of the assembled archive.  The first is classes.dex with
\* the bytecode file's content.  With a compiled resource archive the names
\* are classes.dex and the resource archive's names, once each, every other
\* member carrying what the resource archive holds under its name; without
\* one there is exactly one more member, the raw AndroidManifest.xml
\* declaring the run's package.  Either way the archive is written.
C16_ArchiveMemberSet ==
    pc \in {"sign", "keytool"} =>
       /\ unsignedApk # Absent
       /\ LET ms == Content(unsignedApk).members
              res == Content(resourcesApk)
          IN  /\ ms[1] = Member("classes.dex", Content(dexFile))
              /\ IF resourcesRet
                 THEN /\ Names(ms) = {"classes.dex"} \cup Names(res)
                      /\ Len(ms) = Cardinality(Names(ms))
                      /\ \A i \in 2..Len(ms) : ms[i].data = ReadMember(res, ms[i].name)
                 ELSE ms = <<Member("classes.dex", Content(dexFile)),
                             Member("AndroidManifest.xml",
                                    [package |-> package, label |-> "App",
                                     activity |-> ".MainActivity"])>>

C16_Witness ==
    /\ pc = "sign" /\ ~resourcesRet
    /\ last.tool = "aapt package" /\ last.status = "timeout"
    /\ Len(Content(unsignedApk).members) = 2
    /\ Content(unsignedApk).members[2].data.package = package

\* A second case of C16: a resource archive with a member of its own and a
\* colliding classes.dex has been merged.
C16_MergedWitness ==
    /\ pc = "sign" /\ resourcesRet
    /\ Names(Content(resourcesApk)) = {"AndroidManifest.xml", "classes.dex"}
    /\ Names(Content(unsignedApk).members) = {"AndroidManifest.xml", "classes.dex"}
    /\ Len(Content(unsignedApk).members) = 2

KeytoolFailed(l) == l.tool = "keytool -genkey" /\ l.status # "ok"

\* C17: after the signing sub-stage a signing identity generated during the
\* run exists at the keystore path, also when keystore generation failed.
C17_IdentityExistsAfterSigning ==
    (pc = "align" /\ KeytoolFailed(last)) => keystore = File(NewKeystore)

\* C18: the signer is invoked only right after a keytool call of the same
\* run that exited with status 0.  When keytool failed (missing, non-zero
\* exit, timeout) the signer is not invoked in the run, _sign_apk returns
\* False and the archive, and the artifact made from it, carry no signature.
\* When the signer ran, _sign_apk returns True unless the call raised, so a
\* non-zero exit of the signer is reported as success.
C18_SignerOnlyAfterKeystore ==
    /\ pc = "jarsigner" => (last.tool = "keytool -genkey" /\ last.status = "ok")
    /\ \A i \in DOMAIN calls :
          calls[i] = "jarsigner" => (i > 1 /\ calls[i - 1] = "keytool -genkey")
    /\ (pc = "align" /\ KeytoolFailed(last)) =>
          /\ "jarsigner" \notin Range(calls)
          /\ signRet = <<FALSE>>
          /\ Content(unsignedApk).signed = <<>>
    /\ (pc \in {"aligned", "done"} /\ "keytool -genkey" \in Range(calls)
                                    /\ "jarsigner" \notin Range(calls)) =>
          /\ signRet = <<FALSE>>
          /\ WrittenThisRun(outFile) => Content(outFile).signed = <<>>
    /\ (pc = "align" /\ last.tool = "jarsigner") =>
          /\ signRet = <<~Raised(last)>>
          /\ last.status = "nonzero" => signRet = <<TRUE>>

C18_Witness ==
    /\ pc = "done" /\ exitCode = <<0>>
    /\ "keytool -genkey" \in Range(calls) /\ "jarsigner" \notin Range(calls)
    /\ signRet = <<FALSE>>
    /\ WrittenThisRun(outFile) /\ Content(outFile).signed = <<>>

\* A second case of C18: the signer exited non-zero and _sign_apk returned True.
C18_SignerNonZeroWitness ==
    pc = "align" /\ last.tool = "jarsigner" /\ last.status = "nonzero" /\ signRet = <<TRUE>>

\* The stage of generate an external tool belongs to (3, archive assembly,
\* calls no tool).
StageOf(tool) ==
    CASE tool \in {"smali assemble", "smali a", "apktool b"} -> 1
      [] tool = "aapt package" -> 2
      [] tool \in {"keytool -genkey", "jarsigner"} -> 4
      [] tool = "zipalign" -> 5

\* C19: the stages of a run follow one another in the order bytecode,
\* resources, archive, signing, alignment.  Tool calls never go back to an
\* earlier stage; resources start with the bytecode file in place; the
\* archive does not exist before its stage and is complete when the signer's
\* stage starts; alignment starts only when _sign_apk has returned, True or
\* False; and an artifact written by the run is the archive as the signing
\* attempt left it, aligned or copied.
C19_StagesInOrder ==
    /\ \A i, j \in DOMAIN calls : i < j => StageOf(calls[i]) <= StageOf(calls[j])
    /\ pc \in {"generate", "smali1", "smali2", "prebuilt", "resources", "archive"} =>
          /\ unsignedApk = Absent /\ signRet = <<>>
          /\ \A i \in DOMAIN calls : StageOf(calls[i]) <= 2
    /\ pc \in {"generate", "smali1", "smali2", "prebuilt"} =>
          /\ manifestFile = Absent /\ resourcesApk = Absent
          /\ \A i \in DOMAIN calls : StageOf(calls[i]) = 1
    /\ pc \in {"resources", "archive"} => dexFile # Absent
    /\ pc \in {"sign", "keytool", "jarsigner", "align", "aligned"} =>
          /\ unsignedApk # Absent
          /\ Content(unsignedApk).members =
                ArchiveMembers(dexFile, resourcesRet, resourcesApk, package)
    /\ pc \in {"sign", "keytool", "jarsigner"} =>
          /\ signRet = <<>>
          /\ "zipalign" \notin Range(calls)
          /\ ~WrittenThisRun(outFile)
    /\ pc = "align" =>
          /\ signRet \in {<<TRUE>>, <<FALSE>>}
          /\ last.tool \in {"keytool -genkey", "jarsigner"}
          /\ "zipalign" \notin Range(calls)
          /\ ~WrittenThisRun(outFile)
    /\ pc = "aligned" =>
          /\ signRet \in {<<TRUE>>, <<FALSE>>}
          /\ last.tool = "zipalign"
          /\ WrittenThisRun(outFile) =>
                outFile \in {unsignedApk, File(Aligned(Content(unsignedApk)))}

C19_Witness ==
    /\ pc = "aligned" /\ signRet = <<FALSE>>
    /\ calls = <<"smali assemble", "smali a", "apktool b", "aapt package",
                 "keytool -genkey", "zipalign">>
    /\ outFile = unsignedApk

\* A second case of C19: signing succeeded and the aligner wrote the artifact.
C19_SignedWitness ==
    /\ pc = "aligned" /\ signRet = <<TRUE>>
    /\ Content(unsignedApk).signed = <<NewKeystore>>
    /\ outFile = File(Aligned(Content(unsignedApk)))

NoCallTwice == \A i, j \in DOMAIN calls : calls[i] = calls[j] => i = j

\* Where the run stands once the call held in last has timed out: the call
\* counted as a failure and the next fallback has taken over.
TimeoutIsFailure ==
    last.status = "timeout" =>
       CASE last.tool \in SmaliTools ->
               /\ pc \in {"prebuilt", "resources", "archive", "sign", "keytool"}
               /\ pc # "prebuilt" => Content(dexFile) # SmaliDex
         [] last.tool = "apktool b" ->
               /\ pc \in {"resources", "archive", "sign", "keytool"}
               /\ Content(dexFile) = PlaceholderDex
         [] last.tool = "aapt package" ->
               pc \in {"archive", "sign", "keytool"} /\ ~resourcesRet
         [] last.tool \in {"keytool -genkey", "jarsigner"} ->
               pc = "align" /\ signRet = <<FALSE>>
         [] last.tool = "zipalign" ->
               /\ pc \in {"aligned", "done"}
               /\ pc = "aligned" => outFile = unsignedApk
               /\ pc = "done" => exitCode = <<0>>

\* C20: every run terminates with exit code 0 or 1, whatever the external
\* tools do; a call that timed out counts as a failure of its strategy and
\* the next fallback takes over; no call is made twice in a run.
C20_EveryRunTerminates ==
    /\ [](NoCallTwice /\ TimeoutIsFailure)
    /\ [](pc = "done" => exitCode \in {<<0>>, <<1>>})
    /\ <>(pc = "done")

C20_Witness ==
    /\ pc = "done" /\ exitCode = <<0>>
    /\ calls = <<"smali assemble", "apktool b", "aapt package", "keytool -genkey",
                 "zipalign">>
    /\ last.status = "timeout"

\* C21: nothing protects the keystore path between runs.  A run inside
\* _sign_apk never waits for another run, whatever that run is doing to the
\* path, and the signer takes the path as it finds it.
C21_IdentityUnprotected ==
    \A r \in Runs :
       /\ runs[r].pc \notin {"returned", "raised"} => ENABLED RunStep(r)
       /\ runs[r].saw # <<>> => runs[r].pc = "returned"

\* One run has invoked the signer on a keystore another run is still writing.
C21_Witness ==
    \E r, q \in Runs :
       /\ r # q
       /\ runs[r].saw = <<File(PartialKeystore(q))>>
       /\ runs[q].pc = "writing"

\* A second case of C21: one run has regenerated the keystore, another has
\* deleted it since, and the first has invoked the signer on the empty path.
C21_DeletedWitness ==
    \E r, q \in Runs :
       /\ r # q
       /\ runs[r].saw = <<Absent>> /\ runs[r].ret = <<TRUE>>
       /\ runs[q].pc = "keytool"

\* The place of an archive in the ordered search: the stage (1 fixed system
\* locations, 2 system platforms directory, 3 platforms directory of the SDK
\* root the environment declares, 4 user-home and opt defaults, 0 not
\* searched), then the group (levels 23..30 first), then the position in the
\* list or the API level.
Position(paths, jar) == CHOOSE i \in DOMAIN paths : paths[i] = jar
SearchRank(jar, env) ==
    IF jar \in Range(known_paths) THEN <<1, 0, Position(known_paths, jar)>>
    ELSE IF jar.named = "android-N" /\ jar.at \in {"system", AndroidHome(env)}
    THEN <<IF jar.at = "system" THEN 2 ELSE 3,
           IF jar.level \in 23..30 THEN 0 ELSE 1,
           jar.level>>
    ELSE IF jar \in Range(additional_paths) THEN <<4, 0, Position(additional_paths, jar)>>
    ELSE <<0, 0, 0>>

RankLeq(a, b) ==
    \/ a[1] < b[1]
    \/ a[1] = b[1] /\ a[2] < b[2]
    \/ a[1] = b[1] /\ a[2] = b[2] /\ a[3] <= b[3]

Candidates(env) == {jar \in env.jars : SearchRank(jar, env)[1] > 0}

\* C22: _find_android_jar returns the first existing candidate of the one
\* ordered search (fixed system locations in listed order, system platforms
\* directory with levels 23..30 first and lowest level first in each group,
\* the declared SDK root's platforms directory ranked the same way, the four
\* defaults), and None exactly when no candidate exists.
C22_FirstExistingCandidate ==
    pc = "found" =>
       /\ androidJar = Absent <=> Candidates(sdk) = {}
       /\ androidJar # Absent =>
             /\ Content(androidJar) \in Candidates(sdk)
             /\ \A other \in Candidates(sdk) :
                   RankLeq(SearchRank(Content(androidJar), sdk), SearchRank(other, sdk))

C22_Witness ==
    /\ pc = "found"
    /\ sdk.jars = {Platform("system", 22), Platform("system", 24), Platform("rootA", 23)}
    /\ sdk.ANDROID_HOME = "rootA"
    /\ androidJar = File(Platform("system", 24))

\* A second case of C22: nothing in the system locations, the declared SDK
\* root holds levels below, inside and above the range.
C22_SdkRootWitness ==
    /\ pc = "found"
    /\ sdk.jars = {Platform("rootB", 22), Platform("rootB", 30), Platform("home", 28)}
    /\ sdk.ANDROID_HOME = "" /\ sdk.ANDROID_SDK_ROOT = "rootB"
    /\ androidJar = File(Platform("rootB", 30))

\* The SDK roots the two variables name, and a root whose platforms
\* directory holds a platform archive.
DeclaredRoots(env) == {env.ANDROID_HOME, env.ANDROID_SDK_ROOT} \ {""}
HoldsArchive(root, env) ==
    \E jar \in env.jars : jar.at = root /\ jar.named = "android-N"

\* C23: when neither the fixed system locations nor the system platforms
\* directory hold a platform archive and one of ANDROID_HOME and
\* ANDROID_SDK_ROOT names a root that holds one, _find_android_jar returns an
\* archive from such a root, whatever the other variable is set to.
C23_EitherVariableServes ==
    (/\ pc = "found"
     /\ \A jar \in sdk.jars : jar \notin Range(known_paths) /\ jar.at # "system"
     /\ \E root \in DeclaredRoots(sdk) : HoldsArchive(root, sdk))
    => /\ androidJar # Absent
       /\ Content(androidJar).at \in DeclaredRoots(sdk)
       /\ HoldsArchive(Content(androidJar).at, sdk)

\* The run was turned down by main's checks.
Rejected == pc = "done" /\ ~Accepted(package)

\* C24: a run rejected for its package identifier changes nothing.  The
\* rejecting step ends the run with exit code 1 and leaves the output
\* directory, the artifact path, the keystore, the working tree and the list
\* of tool calls as they were; in the rejected state no tool has been called,
\* no working tree exists and the keystore is the one found, if any.
C24_RejectedRunChangesNothing ==
    /\ [][(pc = "start" /\ ~Accepted(package)) =>
             /\ pc' = "done" /\ exitCode' = <<1>>
             /\ UNCHANGED <<outDir, outFile, keystore, tree, calls, result>>]_vars
    /\ [](Rejected =>
             /\ calls = <<>> /\ last = NoInvocation
             /\ TreeGone
             /\ keystore \in {Absent, File(EarlierKeystore)}
             /\ outFile \in {Absent, File(EarlierArtifact)}
             /\ outDir = (outFile # Absent)
             /\ result = Absent /\ exitCode = <<1>>)

C24_Witness ==
    /\ Rejected /\ exitCode = <<1>>
    /\ package = <<"a", "-">>
    /\ keystore = File(EarlierKeystore)
    /\ ~outDir /\ ~workDir /\ calls = <<>>

====
